---- MODULE Spec2Model ----
(***************************************************************************)
(* Inventory app (src/inventory-app/src/app.py): a SQLite table `items`    *)
(* behind four single-statement store functions, and a Tk form/table       *)
(* controller over it.                                                     *)
(*                                                                         *)
(* Text is a sequence of one-character strings, so that trimming, integer  *)
(* parsing, integer formatting and byte-wise comparison are computed and   *)
(* not assumed.                                                            *)
(***************************************************************************)
EXTENDS Integers, Sequences, FiniteSets, TLC

VARIABLES
    items,       \* the table `items`: rowid -> [name, location, qty]
    open_conns,  \* sqlite3 connections opened by get_conn() and not closed yet
    call,        \* the last direct call of a store function, and what it returned
    running,     \* the Tk main loop is running
    name_var,    \* form field Name
    loc_var,     \* form field Location
    qty_var,     \* form field Qty
    tree,        \* the Treeview's rows, top to bottom
    selection,   \* iids of the selected Treeview rows
    last         \* the last UI step: handler, dialog shown, store calls made, error

vars == <<items, open_conns, call, running, name_var, loc_var, qty_var,
          tree, selection, last>>

ui_vars == <<running, name_var, loc_var, qty_var, tree, selection, last>>

(***************************************************************************)
(* Bounds                                                                  *)
(***************************************************************************)
\* largest rowid the table gets to
MaxId == 3
\* most connections left open at once
MaxConns == 1

(***************************************************************************)
(* Text                                                                    *)
(***************************************************************************)
Whitespace == {" "}

DigitChars == <<"0", "1", "2", "3", "4", "5", "6", "7", "8", "9">>

IsDigit(c) == \E i \in 1..10 : DigitChars[i] = c

DigitVal(c) == (CHOOSE i \in 1..10 : DigitChars[i] = c) - 1

\* code point of a character (SQLite's BINARY collation compares bytes)
Ord(c) ==
    CASE c = " " -> 32
      [] c = "+" -> 43
      [] c = "-" -> 45
      [] IsDigit(c) -> 48 + DigitVal(c)
      [] c = "A" -> 65
      [] c = "a" -> 97
      [] c = "b" -> 98
      [] c = "x" -> 120

RECURSIVE lstrip(_)
lstrip(s) ==
    IF s # <<>> /\ Head(s) \in Whitespace THEN lstrip(Tail(s)) ELSE s

RECURSIVE rstrip(_)
rstrip(s) ==
    IF s # <<>> /\ s[Len(s)] \in Whitespace
    THEN rstrip(SubSeq(s, 1, Len(s) - 1))
    ELSE s

\* str.strip()
strip(s) == rstrip(lstrip(s))

RECURSIVE DigitsValue(_)
DigitsValue(s) ==
    IF s = <<>> THEN 0
    ELSE 10 * DigitsValue(SubSeq(s, 1, Len(s) - 1)) + DigitVal(s[Len(s)])

\* int(text): surrounding whitespace ignored, an optional sign, then at least
\* one digit. ok = FALSE is ValueError.
int_(text) ==
    LET s == strip(text)
        signed == s # <<>> /\ Head(s) \in {"+", "-"}
        digits == IF signed THEN Tail(s) ELSE s
        good == digits # <<>> /\ \A i \in 1..Len(digits) : IsDigit(digits[i])
    IN  IF ~good THEN [ok |-> FALSE, val |-> 0]
        ELSE [ok |-> TRUE,
              val |-> IF signed /\ Head(s) = "-"
                      THEN 0 - DigitsValue(digits)
                      ELSE DigitsValue(digits)]

RECURSIVE str_(_)
\* str(n) of an integer
str_(n) ==
    IF n < 0 THEN <<"-">> \o str_(0 - n)
    ELSE IF n < 10 THEN <<DigitChars[n + 1]>>
    ELSE str_(n \div 10) \o <<DigitChars[(n % 10) + 1]>>

RECURSIVE TextLess(_, _)
\* s sorts strictly before t: the first differing byte decides, a proper
\* prefix sorts first
TextLess(s, t) ==
    IF t = <<>> THEN FALSE
    ELSE IF s = <<>> THEN TRUE
    ELSE IF Head(s) # Head(t) THEN Ord(Head(s)) < Ord(Head(t))
    ELSE TextLess(Tail(s), Tail(t))

(***************************************************************************)
(* DB layer                                                                *)
(***************************************************************************)
\* what can go wrong in a store function: nothing, or the statement raises
\* (sqlite3.OperationalError: the database is locked, the disk is full, ...)
Faults == {"none", "execute"}

\* the value a function returns: <<>> is None, <<v>> is v
None == <<>>

Row(name, location, qty) == [name |-> name, location |-> location, qty |-> qty]

MaxOf(S) == CHOOSE m \in S : \A x \in S : x <= m

\* NextRowid reusing the largest rowid in the table
NextRowid_reuse(tbl) == IF DOMAIN tbl = {} THEN 1 ELSE MaxOf(DOMAIN tbl)

\* the rowid SQLite gives a row inserted without one into an INTEGER PRIMARY
\* KEY table: one more than the largest rowid in the table
NextRowid(tbl) == IF DOMAIN tbl = {} THEN 1 ELSE MaxOf(DOMAIN tbl) + 1

\* `with get_conn() as con: con.execute(...)`: get_conn() opens a connection;
\* when the statement raises, the block rolls back and the exception goes on,
\* otherwise it commits `changed`. Leaving the block closes nothing: a
\* sqlite3 Connection used as a context manager only commits or rolls back.
WithConn(tbl, changed, ret, fault) ==
    IF fault # "none"
    THEN [items |-> tbl, ret |-> None, raised |-> TRUE, opened |-> 1]
    ELSE [items |-> changed, ret |-> ret, raised |-> FALSE, opened |-> 1]

\* init_db(): get_conn(), CREATE TABLE IF NOT EXISTS, commit, close. When the
\* statement raises, con.close() is not reached.
init_db(tbl, fault) ==
    IF fault # "none"
    THEN [items |-> tbl, ret |-> None, raised |-> TRUE, opened |-> 1]
    ELSE [items |-> tbl, ret |-> None, raised |-> FALSE, opened |-> 0]

\* INSERT INTO items(name, location, qty) VALUES (?,?,?); nothing is returned
add_item(tbl, name, location, qty, fault) ==
    WithConn(tbl,
             [i \in DOMAIN tbl \cup {NextRowid(tbl)} |->
                 IF i \in DOMAIN tbl THEN tbl[i] ELSE Row(name, location, qty)],
             None, fault)

\* RowBefore with the two sort keys swapped: ORDER BY name, location
RowBefore_by_name(r1, r2) ==
    \/ TextLess(r1[2], r2[2])
    \/ r1[2] = r2[2] /\ TextLess(r1[3], r2[3])

\* ORDER BY location, name
RowBefore(r1, r2) ==
    \/ TextLess(r1[3], r2[3])
    \/ r1[3] = r2[3] /\ TextLess(r1[2], r2[2])

\* r put into the sorted sequence s, after the rows that do not sort after it
SortedInsert(s, r) ==
    LET later == {i \in 1..Len(s) : RowBefore(r, s[i])}
        k == IF later = {} THEN Len(s) + 1
             ELSE CHOOSE i \in later : \A j \in later : i <= j
    IN  SubSeq(s, 1, k - 1) \o <<r>> \o SubSeq(s, k, Len(s))

RECURSIVE SortRows(_, _)
\* the rows with rowid in ids, scanned in rowid order, sorted
SortRows(tbl, ids) ==
    IF ids = {} THEN <<>>
    ELSE LET i == MaxOf(ids)
         IN  SortedInsert(SortRows(tbl, ids \ {i}),
                          <<i, tbl[i].name, tbl[i].location, tbl[i].qty>>)

\* SELECT id, name, location, qty FROM items ORDER BY location, name
SelectAll(tbl) == SortRows(tbl, DOMAIN tbl)

list_items(tbl, fault) == WithConn(tbl, tbl, <<SelectAll(tbl)>>, fault)

\* update_item as an upsert: a missing id is inserted
update_item_upsert(tbl, item_id, name, location, qty, fault) ==
    WithConn(tbl,
             [i \in DOMAIN tbl \cup {item_id} |->
                 IF i = item_id THEN Row(name, location, qty) ELSE tbl[i]],
             None, fault)

\* UPDATE items SET name=?, location=?, qty=? WHERE id=?
update_item(tbl, item_id, name, location, qty, fault) ==
    WithConn(tbl,
             [i \in DOMAIN tbl |->
                 IF i = item_id THEN Row(name, location, qty) ELSE tbl[i]],
             None, fault)

\* delete_item with WHERE id >= ?
delete_item_from(tbl, item_id, fault) ==
    WithConn(tbl, [i \in {j \in DOMAIN tbl : j < item_id} |-> tbl[i]], None, fault)

\* DELETE FROM items WHERE id=?
delete_item(tbl, item_id, fault) ==
    WithConn(tbl, [i \in DOMAIN tbl \ {item_id} |-> tbl[i]], None, fault)

\* connections still open after a function that opened `opened` of them: the
\* code never closes one, so it stays open unless the runtime finalizes the
\* unreferenced Connection object at once (reclaimed); a raised exception's
\* traceback keeps the function's frame, and with it the connection, alive
ConnsAfter(n, r, reclaimed) ==
    IF reclaimed /\ ~r.raised THEN n ELSE n + r.opened

(***************************************************************************)
(* The store functions called directly                                     *)
(***************************************************************************)
\* the arguments the functions are called with
StoreArgs == {Row(<<"a">>, <<"A">>, 1), Row(<<"a", "b">>, <<"A">>, 0),
              Row(<<"a">>, <<"a">>, 0), Row(<<"a", "b">>, <<"a">>, 1)}
StoreIds == 1..MaxId
\* the ways a call can end: returned and the connection finalized at once,
\* returned with the connection left open, raised
Outcomes == {<<"none", TRUE>>, <<"none", FALSE>>, <<"execute", FALSE>>}

NoCall == [op |-> "none", id |-> 0, name |-> <<>>, location |-> <<>>,
           qty |-> 0, fault |-> "none", ret |-> None, raised |-> FALSE]

\* a call, the fault it met, what it returned and whether it raised
Called(op, id, a, fault, r) ==
    [op |-> op, id |-> id, name |-> a.name, location |-> a.location, qty |-> a.qty,
     fault |-> fault, ret |-> r.ret, raised |-> r.raised]

Init ==
    /\ items = <<>>
    /\ open_conns = 0
    /\ call = NoCall
    /\ running = FALSE
    /\ name_var = <<>>
    /\ loc_var = <<>>
    /\ qty_var = <<>>
    /\ tree = <<>>
    /\ selection = {}
    /\ last = [op |-> "none", msg |-> "none", calls |-> <<>>, err |-> "none",
               report |-> "none"]

StoreStep(op, id, a, o, r) ==
    /\ ConnsAfter(open_conns, r, o[2]) <= MaxConns
    /\ items' = r.items
    /\ open_conns' = ConnsAfter(open_conns, r, o[2])
    /\ call' = Called(op, id, a, o[1], r)
    /\ UNCHANGED ui_vars

NoArgs == Row(<<>>, <<>>, 0)

CallInitDb ==
    \E o \in Outcomes :
        StoreStep("init_db", 0, NoArgs, o, init_db(items, o[1]))

CallAddItem ==
    \E a \in StoreArgs, o \in Outcomes :
        /\ NextRowid(items) <= MaxId
        /\ StoreStep("add_item", 0, a, o,
                     add_item(items, a.name, a.location, a.qty, o[1]))

CallListItems ==
    \E o \in Outcomes :
        StoreStep("list_items", 0, NoArgs, o, list_items(items, o[1]))

CallUpdateItem ==
    \E id \in StoreIds, a \in StoreArgs, o \in Outcomes :
        StoreStep("update_item", id, a, o,
                  update_item(items, id, a.name, a.location, a.qty, o[1]))

CallDeleteItem ==
    \E id \in StoreIds, o \in Outcomes :
        StoreStep("delete_item", id, NoArgs, o, delete_item(items, id, o[1]))

\* the runtime finalizes the Connection objects nothing refers to any more,
\* which closes them
Finalize ==
    /\ open_conns > 0
    /\ open_conns' = 0
    /\ UNCHANGED <<items, call>>
    /\ UNCHANGED ui_vars

StoreNext ==
    \/ CallInitDb
    \/ CallAddItem
    \/ CallListItems
    \/ CallUpdateItem
    \/ CallDeleteItem
    \/ Finalize

StoreSpec == Init /\ [][StoreNext]_vars

(***************************************************************************)
(* UI helpers                                                              *)
(***************************************************************************)
NoDialog == "none"

\* where an exception that leaves a handler ends up: the handlers catch
\* nothing, so Tk's callback wrapper prints the traceback to stderr
ReportOf(err) == IF err = "none" THEN "none" ELSE "stderr"

\* a UI step: the handler, the dialog it showed last, the store functions it
\* called, the one that raised, and where the exception was reported
Step(op, msg, calls, err) ==
    [op |-> op, msg |-> msg, calls |-> calls, err |-> err, report |-> ReportOf(err)]

\* Rendered with the row's position as its iid
Rendered_by_position(listing) ==
    [k \in 1..Len(listing) |->
        [iid |-> str_(k),
         values |-> <<listing[k][2], listing[k][3], str_(listing[k][4])>>]]

\* the Treeview rows refresh() inserts for a list_items() result: iid is
\* str(id), the values are shown as text
Rendered(listing) ==
    [k \in 1..Len(listing) |->
        [iid |-> str_(listing[k][1]),
         values |-> <<listing[k][2], listing[k][3], str_(listing[k][4])>>]]

\* refresh(): the rows are deleted first, then list_items() is called; when it
\* raises, the table is left empty
refresh(r) == IF r.raised THEN <<>> ELSE Rendered(r.ret[1])

Iids(rows) == {rows[k].iid : k \in 1..Len(rows)}

\* tree.exists(iid)
Exists(rows, iid) == iid \in Iids(rows)

\* tree.selection()[0]: the topmost selected row
FirstSelected(rows, sel) ==
    rows[CHOOSE k \in 1..Len(rows) :
            /\ rows[k].iid \in sel
            /\ \A j \in 1..Len(rows) : rows[j].iid \in sel => k <= j]

\* select_row(): the form as it is after the <<TreeviewSelect>> binding ran
select_row(rows, sel, form) ==
    IF sel = {} THEN form
    ELSE LET vals == FirstSelected(rows, sel).values
         IN  <<vals[1], vals[2], vals[3]>>

\* clear_form(): the form's fields
ClearedForm == <<<<>>, <<>>, <<"1">>>>

\* validate_inputs without the q < 0 test
validate_inputs_any_int(name, loc, qty, sel, require_selection) ==
    LET n == strip(name)
        l == strip(loc)
        q == int_(strip(qty))
    IN  IF require_selection /\ sel = {}
        THEN [ok |-> FALSE, msg |-> "Select a row", n |-> n, l |-> l, q |-> 0]
        ELSE IF n = <<>> \/ l = <<>>
        THEN [ok |-> FALSE, msg |-> "Missing info", n |-> n, l |-> l, q |-> 0]
        ELSE IF ~q.ok
        THEN [ok |-> FALSE, msg |-> "Invalid quantity", n |-> n, l |-> l, q |-> 0]
        ELSE [ok |-> TRUE, msg |-> NoDialog, n |-> n, l |-> l, q |-> q.val]

\* validate_inputs testing the untrimmed name and location for emptiness
validate_inputs_untrimmed(name, loc, qty, sel, require_selection) ==
    LET n == strip(name)
        l == strip(loc)
        q == int_(strip(qty))
    IN  IF require_selection /\ sel = {}
        THEN [ok |-> FALSE, msg |-> "Select a row", n |-> n, l |-> l, q |-> 0]
        ELSE IF name = <<>> \/ loc = <<>>
        THEN [ok |-> FALSE, msg |-> "Missing info", n |-> n, l |-> l, q |-> 0]
        ELSE IF ~q.ok \/ q.val < 0
        THEN [ok |-> FALSE, msg |-> "Invalid quantity", n |-> n, l |-> l, q |-> 0]
        ELSE [ok |-> TRUE, msg |-> NoDialog, n |-> n, l |-> l, q |-> q.val]

validate_inputs(name, loc, qty, sel, require_selection) ==
    LET n == strip(name)
        l == strip(loc)
        q == int_(strip(qty))
    IN  IF require_selection /\ sel = {}
        THEN [ok |-> FALSE, msg |-> "Select a row", n |-> n, l |-> l, q |-> 0]
        ELSE IF n = <<>> \/ l = <<>>
        THEN [ok |-> FALSE, msg |-> "Missing info", n |-> n, l |-> l, q |-> 0]
        ELSE IF ~q.ok \/ q.val < 0
        THEN [ok |-> FALSE, msg |-> "Invalid quantity", n |-> n, l |-> l, q |-> 0]
        ELSE [ok |-> TRUE, msg |-> NoDialog, n |-> n, l |-> l, q |-> q.val]

(***************************************************************************)
(* The user and the button handlers                                        *)
(***************************************************************************)
\* what the user types into Name, Location and Qty
FormInputs ==
    {<<<<" ", "a">>, <<"b">>, <<"0">>>>,
     <<<<"b">>, <<"a", " ">>, <<"+", "2">>>>,
     <<<<>>, <<"a">>, <<"1">>>>,
     <<<<" ">>, <<"a">>, <<"1">>>>,
     <<<<"a">>, <<>>, <<"1">>>>,
     <<<<"a">>, <<" ">>, <<"1">>>>,
     <<<<"a">>, <<"a">>, <<"x">>>>,
     <<<<"a">>, <<"a">>, <<"-", "1">>>>,
     <<<<"a">>, <<"a">>, <<>>>>}

form == <<name_var, loc_var, qty_var>>

SetForm(f) ==
    /\ name_var' = f[1]
    /\ loc_var' = f[2]
    /\ qty_var' = f[3]

\* the process ended before mainloop(): an exception at module level
Crashed(calls, fn) ==
    /\ open_conns' = 0
    /\ last' = Step("main", NoDialog, calls, fn)
    /\ UNCHANGED <<items, call, running, name_var, loc_var, qty_var, tree, selection>>

\* __main__: init_db(), the widgets, refresh(), mainloop()
Start ==
    /\ ~running
    /\ \E o1 \in Outcomes :
        LET i == init_db(items, o1[1])
            c1 == ConnsAfter(0, i, o1[2])
        IN  IF i.raised THEN o1[2] = FALSE /\ Crashed(<<"init_db">>, "init_db")
            ELSE \E o2 \in Outcomes :
                 LET r == list_items(i.items, o2[1])
                     c2 == ConnsAfter(c1, r, o2[2])
                 IN  IF r.raised THEN Crashed(<<"init_db", "list_items">>, "list_items")
                     ELSE /\ c2 <= MaxConns
                          /\ items' = r.items
                          /\ open_conns' = c2
                          /\ running' = TRUE
                          /\ SetForm(ClearedForm)
                          /\ tree' = refresh(r)
                          /\ selection' = {}
                          /\ last' = Step("main", NoDialog, <<"init_db", "list_items">>, "none")
                          /\ call' = call

\* the window is closed: mainloop() returns and the process ends
Quit ==
    /\ running
    /\ running' = FALSE
    /\ SetForm(<<<<>>, <<>>, <<>>>>)
    /\ tree' = <<>>
    /\ selection' = {}
    /\ open_conns' = 0
    /\ last' = Step("quit", NoDialog, <<>>, "none")
    /\ UNCHANGED <<items, call>>

\* the user edits the form
TypeForm ==
    /\ running
    /\ \E f \in FormInputs : SetForm(f)
    /\ last' = Step("edit", NoDialog, <<>>, "none")
    /\ UNCHANGED <<items, open_conns, call, running, tree, selection>>

\* the user clicks, ctrl-clicks or shift-clicks rows of the Treeview, whose
\* selectmode is the default "extended"; <<TreeviewSelect>> runs select_row()
UserSelect ==
    /\ running
    /\ \E sel \in SUBSET Iids(tree) :
        /\ selection' = sel
        /\ SetForm(select_row(tree, sel, form))
    /\ last' = Step("select_row", NoDialog, <<>>, "none")
    /\ UNCHANGED <<items, open_conns, call, running, tree>>

\* a handler that returned before any store call
Returned(op, msg) ==
    /\ last' = Step(op, msg, <<>>, "none")
    /\ UNCHANGED <<items, open_conns, call, running, name_var, loc_var, qty_var,
                   tree, selection>>

\* a handler whose first store call raised: the exception leaves the handler
\* and Tk's callback wrapper prints the traceback to stderr
Raised(op, msg, fn, conns) ==
    /\ conns <= MaxConns
    /\ open_conns' = conns
    /\ last' = Step(op, msg, <<fn>>, fn)
    /\ UNCHANGED <<items, call, running, name_var, loc_var, qty_var, tree, selection>>

\* the second half of a handler whose first store call returned: the form and
\* the selection are already as the handler leaves them, refresh() runs
Refreshed(op, msg, fn, tbl, conns, keep) ==
    \E o2 \in Outcomes :
        LET r == list_items(tbl, o2[1])
            c2 == ConnsAfter(conns, r, o2[2])
            rows == refresh(r)
            sel == IF keep # <<>> /\ Exists(rows, keep) THEN {keep} ELSE {}
        IN  /\ c2 <= MaxConns
            /\ items' = r.items
            /\ open_conns' = c2
            /\ tree' = rows
            /\ selection' = sel
            /\ SetForm(IF keep = <<>> THEN ClearedForm ELSE select_row(rows, sel, form))
            /\ last' = Step(op, msg, <<fn, "list_items">>,
                            IF r.raised THEN "list_items" ELSE "none")
            /\ UNCHANGED <<call, running>>

on_add ==
    /\ running
    /\ LET v == validate_inputs(name_var, loc_var, qty_var, selection, FALSE)
       IN  IF ~v.ok THEN Returned("on_add", v.msg)
           ELSE /\ NextRowid(items) <= MaxId
                /\ \E o1 \in Outcomes :
                    LET a == add_item(items, v.n, v.l, v.q, o1[1])
                        c1 == ConnsAfter(open_conns, a, o1[2])
                    IN  IF a.raised THEN Raised("on_add", NoDialog, "add_item", c1)
                        \* clear_form(), refresh()
                        ELSE Refreshed("on_add", NoDialog, "add_item", a.items, c1, <<>>)

on_update ==
    /\ running
    /\ LET v == validate_inputs(name_var, loc_var, qty_var, selection, TRUE)
       IN  IF ~v.ok THEN Returned("on_update", v.msg)
           ELSE \E o1 \in Outcomes :
                LET sel == FirstSelected(tree, selection).iid
                    item_id == int_(sel).val
                    u == update_item(items, item_id, v.n, v.l, v.q, o1[1])
                    c1 == ConnsAfter(open_conns, u, o1[2])
                IN  IF u.raised THEN Raised("on_update", NoDialog, "update_item", c1)
                    \* refresh(), then selection_set(str(item_id)) if it exists,
                    \* whose <<TreeviewSelect>> runs select_row()
                    ELSE Refreshed("on_update", NoDialog, "update_item", u.items, c1,
                                   str_(item_id))

on_delete ==
    /\ running
    /\ IF selection = {} THEN Returned("on_delete", "Select a row")
       ELSE \E confirmed \in BOOLEAN :
            IF ~confirmed THEN Returned("on_delete", "Confirm delete")
            ELSE \E o1 \in Outcomes :
                 LET item_id == int_(FirstSelected(tree, selection).iid).val
                     d == delete_item(items, item_id, o1[1])
                     c1 == ConnsAfter(open_conns, d, o1[2])
                 IN  IF d.raised
                     THEN Raised("on_delete", "Confirm delete", "delete_item", c1)
                     \* clear_form(), refresh()
                     ELSE Refreshed("on_delete", "Confirm delete", "delete_item",
                                    d.items, c1, <<>>)

Next ==
    \/ Start
    \/ Quit
    \/ TypeForm
    \/ UserSelect
    \/ on_add
    \/ on_update
    \/ on_delete
    \/ Finalize

Spec == Init /\ [][Next]_vars

(***************************************************************************)
(* Properties                                                              *)
(***************************************************************************)
Handlers == {"on_add", "on_update", "on_delete"}

\* the last handler ran to its end: it called the store and nothing raised
Completed == last.calls # <<>> /\ last.err = "none"

\* C1: every stored item has a name and a location that are not empty after
\* trimming and a qty that is an integer >= 0, whatever the forms submitted.
C1_StoredItemsValid ==
    \A i \in DOMAIN items :
        /\ strip(items[i].name) # <<>>
        /\ strip(items[i].location) # <<>>
        /\ items[i].qty \in Nat

\* two items are stored, the second written by an Update
C1_Witness ==
    /\ Cardinality(DOMAIN items) >= 2
    /\ last.op = "on_update"
    /\ Completed

\* the form is one validate_inputs must refuse
Invalid(name, loc, qty, sel, require_selection) ==
    \/ require_selection /\ sel = {}
    \/ strip(name) = <<>>
    \/ strip(loc) = <<>>
    \/ ~int_(qty).ok
    \/ int_(qty).val < 0

\* C2: an Add or Update on an invalid form (for Update also: no row selected)
\* shows a dialog, calls no store function and leaves the table and the form
\* as they were; an Add with name, location and qty "0" is not refused.
C2_InvalidFormChangesNothing ==
    [][/\ last'.op = "on_add" /\ on_add
                /\ Invalid(name_var, loc_var, qty_var, selection, FALSE)
            => /\ last'.msg \in {"Missing info", "Invalid quantity"}
               /\ last'.calls = <<>>
               /\ UNCHANGED <<items, name_var, loc_var, qty_var>>
       /\ last'.op = "on_update" /\ on_update
                /\ Invalid(name_var, loc_var, qty_var, selection, TRUE)
            => /\ last'.msg \in {"Select a row", "Missing info", "Invalid quantity"}
               /\ last'.calls = <<>>
               /\ UNCHANGED <<items, name_var, loc_var, qty_var>>
       /\ last'.op = "on_add" /\ on_add
                /\ strip(name_var) # <<>> /\ strip(loc_var) # <<>>
                /\ strip(qty_var) = <<"0">>
            => /\ last'.msg = NoDialog
               /\ last'.calls # <<>>]_vars

\* an Add of qty "-1" was refused with items in the store
C2_Witness ==
    /\ last.op = "on_add"
    /\ last.msg = "Invalid quantity"
    /\ qty_var = <<"-", "1">>
    /\ items # <<>>

\* C3 as claimed: add_item returns the id of the row it inserted.
C3_ReturnsAssignedId ==
    call.op = "add_item" /\ ~call.raised
        => \E i \in DOMAIN items :
            /\ call.ret = <<i>>
            /\ items[i] = Row(call.name, call.location, call.qty)

\* C3 as amended: add_item stores the given name, location and qty under an
\* id no stored item had, leaves the other items alone, and returns None.
C3_InsertsUnderFreshIdReturnsNone ==
    [][call'.op = "add_item" /\ ~call'.raised /\ CallAddItem
        => /\ call'.ret = None
           /\ \E i \in DOMAIN items' \ DOMAIN items :
                /\ DOMAIN items' = DOMAIN items \cup {i}
                /\ items'[i] = Row(call'.name, call'.location, call'.qty)
           /\ \A j \in DOMAIN items : items'[j] = items[j]]_vars

\* an insert into a table that already held two items
C3_Witness ==
    /\ call.op = "add_item"
    /\ ~call.raised
    /\ Cardinality(DOMAIN items) = 3

\* s = t, or s sorts before t: s is a prefix of t, or the first byte in which
\* they differ is smaller in s
LexLeq(s, t) ==
    \/ Len(s) <= Len(t) /\ \A k \in 1..Len(s) : s[k] = t[k]
    \/ \E k \in 1..Len(s) :
        /\ k <= Len(t)
        /\ \A j \in 1..(k - 1) : s[j] = t[j]
        /\ Ord(s[k]) < Ord(t[k])

\* C4: list_items returns every stored item exactly once, ascending by
\* location and, within a location, ascending by name.
C4_ListSortedAndComplete ==
    call.op = "list_items" /\ ~call.raised
        => LET l == call.ret[1]
           IN  /\ Len(l) = Cardinality(DOMAIN items)
               /\ \A i \in DOMAIN items :
                    \E k \in 1..Len(l) :
                        l[k] = <<i, items[i].name, items[i].location, items[i].qty>>
               /\ \A j, k \in 1..Len(l) :
                    j < k => /\ LexLeq(l[j][3], l[k][3])
                             /\ l[j][3] = l[k][3] => LexLeq(l[j][2], l[k][2])

\* three items listed in an order that is not the order of their ids
C4_Witness ==
    /\ call.op = "list_items"
    /\ ~call.raised
    /\ Len(call.ret[1]) = 3
    /\ call.ret[1][1][1] > call.ret[1][3][1]
    /\ call.ret[1][1][3] = call.ret[1][2][3]
    /\ call.ret[1][1][2] # call.ret[1][2][2]

\* C5: delete_item removes the row of the given id and no other, changes no
\* other row, and with an id no row has changes nothing and raises nothing.
C5_DeleteRemovesExactlyThatId ==
    [][call'.op = "delete_item" /\ call'.fault = "none" /\ CallDeleteItem
        => /\ ~call'.raised
           /\ DOMAIN items' = DOMAIN items \ {call'.id}
           /\ \A j \in DOMAIN items' : items'[j] = items[j]
           /\ call'.id \notin DOMAIN items => items' = items]_vars

\* id 2 deleted from between ids 1 and 3
C5_Witness ==
    /\ call.op = "delete_item"
    /\ ~call.raised
    /\ call.id = 2
    /\ DOMAIN items = {1, 3}

\* C6: update_item keeps the set of ids, changes no row but the one of the
\* given id, leaves the listing as it was when given the row's own values,
\* and with an id no row has changes nothing and raises nothing.
C6_UpdateTouchesOnlyThatId ==
    [][call'.op = "update_item" /\ call'.fault = "none" /\ CallUpdateItem
        => /\ ~call'.raised
           /\ DOMAIN items' = DOMAIN items
           /\ \A j \in DOMAIN items \ {call'.id} : items'[j] = items[j]
           /\ (/\ call'.id \in DOMAIN items
               /\ items[call'.id] = Row(call'.name, call'.location, call'.qty))
                => SelectAll(items') = SelectAll(items)
           /\ call'.id \notin DOMAIN items => items' = items]_vars

\* an update of an id that is not in a non-empty table
C6_Witness ==
    /\ call.op = "update_item"
    /\ ~call.raised
    /\ call.id \notin DOMAIN items
    /\ items # <<>>

\* C7 as claimed: when the store function an Add, Update or Delete calls
\* raises, the error is shown in a dialog, the table is unchanged and the
\* application keeps running.
C7_StorageErrorShownInDialog ==
    [][last'.err \in {"add_item", "update_item", "delete_item"}
            /\ (on_add \/ on_update \/ on_delete)
        => /\ last'.report = "dialog"
           /\ items' = items
           /\ running']_vars

\* C8: after startup and after every Add, Update or Delete that ran to its
\* end, the Treeview shows the current listing: one row per stored item, in
\* the listing's order, keyed by the item's id, with its name, location, qty.
C8_TableShowsListing ==
    running /\ last.op \in Handlers \cup {"main"} /\ Completed
        => LET l == SelectAll(items)
           IN  /\ Len(tree) = Len(l)
               /\ Len(tree) = Cardinality(DOMAIN items)
               /\ \A k \in 1..Len(l) :
                    /\ int_(tree[k].iid) = [ok |-> TRUE, val |-> l[k][1]]
                    /\ tree[k].values[1] = l[k][2]
                    /\ tree[k].values[2] = l[k][3]
                    /\ int_(tree[k].values[3]) = [ok |-> TRUE, val |-> l[k][4]]

\* a Delete that left two rows, shown in an order that is not that of the ids
C8_Witness ==
    /\ running
    /\ last.op = "on_delete"
    /\ Completed
    /\ Len(tree) = 2
    /\ int_(tree[1].iid).val > int_(tree[2].iid).val

\* C9 as claimed: at most one row is selected, and it is a displayed row.
C9_AtMostOneSelected ==
    /\ Cardinality(selection) <= 1
    /\ selection \subseteq Iids(tree)

\* C10 as claimed: between store operations no connection is open.
C10_NoConnectionLeftOpen == open_conns = 0

====
